---- MODULE Spec2Model ----
(***************************************************************************)
(* Few-shot task sampling of learn2learn/data/task_generator.py:           *)
(* MetaDataset (index by label), LabelEncoder (dense remapping) and        *)
(* TaskGenerator (construction and sample()).                              *)
(*                                                                         *)
(* Python positions and dense indices are 0-based and are kept 0-based     *)
(* here; a Python list is a TLA+ sequence, so list[i] is seq[i + 1].       *)
(* A dataset item is the pair <<data, label>>: item[1] is Python's         *)
(* item[0] (the data), item[2] is Python's item[1] (the label).            *)
(***************************************************************************)
EXTENDS Integers, Sequences, FiniteSets, TLC

\* Bounds of the model.
MaxLen == 4
MaxLabel == 1
MaxClasses == 2
MaxWays == 2

\* shots ranges up to half the longest dataset: two classes can be drawn in
\* full, and a class can have more, as many or fewer positions than shots.
MaxShots == MaxLen \div 2

Labels == 0 .. MaxLabel

\* The data payload is opaque to the code. Position i carries a payload of
\* its own, so that a materialised item tells which position it came from.
Payload(i) == 100 + i

Range(s) == {s[i] : i \in 1 .. Len(s)}

SeqsUpTo(S, n) == UNION {[1 .. k -> S] : k \in 0 .. n}

\* The wrapped datasets: every sequence of at most MaxLen labelled items.
Datasets ==
  {[i \in 1 .. Len(ls) |-> <<Payload(i - 1), ls[i]>>] : ls \in SeqsUpTo(Labels, MaxLen)}

\* The class lists a caller passes (constructor argument, override, assignment).
ClassLists == SeqsUpTo(Labels, MaxClasses)

(***************************************************************************)
(* Exceptions, by Python type and raise site.                              *)
(***************************************************************************)
DuplicateLabelError ==
  [type |-> "AssertionError", msg |-> "Classes contains duplicate values"]

InsufficientClassesError ==
  [type |-> "AssertionError", msg |-> "Ways are more than the number of classes available"]

InvalidClassError ==
  [type |-> "AssertionError", msg |-> "classes contains a label that isn't in dataset"]

\* np.random.choice(a, size, replace=False) raises ValueError when a is empty
\* and size is not 0, and when size is larger than len(a).
ChoiceValueError ==
  [type |-> "ValueError", msg |-> "np.random.choice"]

Raised(e) == [kind |-> "raised", error |-> e]

(***************************************************************************)
(* defaultdict(list): keys in insertion order, val the list of every key.  *)
(***************************************************************************)
EmptyDict == [keys |-> <<>>, val |-> <<>>]

HasKey(d, k) == k \in Range(d.keys)

\* d[k] of a defaultdict(list): a missing key is inserted with an empty list.
Touch(d, k) ==
  IF HasKey(d, k) THEN d
  ELSE [keys |-> Append(d.keys, k), val |-> (k :> <<>>) @@ d.val]

\* d[k].append(i)
AppendTo(d, k, i) ==
  LET d1 == Touch(d, k)
  IN [d1 EXCEPT !.val[k] = Append(@, i)]

(***************************************************************************)
(* MetaDataset                                                             *)
(***************************************************************************)
RECURSIVE ScanFrom(_, _, _)
ScanFrom(ds, i, d) ==
  IF i >= Len(ds) THEN d
  ELSE ScanFrom(ds, i + 1, AppendTo(d, ds[i + 1][2], i))

\* Faulty variant: the scan starts at position 1, as range(1, len) would.
get_dict_of_labels_to_indices_from_one(ds) == ScanFrom(ds, 1, EmptyDict)

get_dict_of_labels_to_indices(ds) == ScanFrom(ds, 0, EmptyDict)

\* self.labels = list(self.labels_to_indices.keys())
KeysList(d) == d.keys

\* self.dataset[idx][0]
DataAt(ds, idx) == ds[idx + 1][1]

(***************************************************************************)
(* LabelEncoder                                                            *)
(***************************************************************************)
RECURSIVE EncodeFrom(_, _, _)
EncodeFrom(cs, idx, enc) ==
  IF idx >= Len(cs) THEN enc
  ELSE EncodeFrom(cs, idx + 1,
         [enc EXCEPT !.class_to_idx = (cs[idx + 1] :> idx) @@ @,
                     !.idx_to_class = (idx :> cs[idx + 1]) @@ @])

NoDuplicates(cs) == Cardinality(Range(cs)) = Len(cs)

\* Faulty variant: the assertion is missing; a repeated label keeps its last index.
LabelEncoder_unchecked(cs) ==
  EncodeFrom(cs, 0, [ok |-> TRUE, class_to_idx |-> <<>>, idx_to_class |-> <<>>])

\* Faulty variant: indices start at 1, as enumerate(classes, 1) would give.
LabelEncoder_from_one(cs) ==
  IF ~NoDuplicates(cs)
  THEN [ok |-> FALSE, error |-> DuplicateLabelError]
  ELSE [ok |-> TRUE,
        class_to_idx |-> [c \in Range(cs) |-> CHOOSE i \in 1 .. Len(cs) : cs[i] = c],
        idx_to_class |-> [i \in 1 .. Len(cs) |-> cs[i]]]

LabelEncoder(cs) ==
  IF ~NoDuplicates(cs)
  THEN [ok |-> FALSE, error |-> DuplicateLabelError]
  ELSE EncodeFrom(cs, 0, [ok |-> TRUE, class_to_idx |-> <<>>, idx_to_class |-> <<>>])

(***************************************************************************)
(* np.random.choice(a, size, replace=False)                                *)
(***************************************************************************)
\* Every outcome of the call: ValueError when size exceeds len(a) (an empty
\* a with size 0 returns the empty selection), else an ordered selection of
\* size elements of a at pairwise distinct positions.
random_choice(a, size) ==
  IF size > Len(a)
  THEN {[ok |-> FALSE, error |-> ChoiceValueError]}
  ELSE {[ok |-> TRUE, value |-> [i \in 1 .. size |-> a[p[i]]]] :
          p \in {q \in [1 .. size -> 1 .. Len(a)] :
                   \A i, j \in 1 .. size : i # j => q[i] # q[j]}}

\* Faulty variant: one copy of the value whatever shots is.
Full_single(shots, v) == <<v>>

\* np.full(shots, fill_value=v)
Full(shots, v) == [i \in 1 .. shots |-> v]

(***************************************************************************)
(* TaskGenerator                                                           *)
(***************************************************************************)
\* The assertion of _check_classes holds.
_check_classes(cs, lbls) == Range(cs) \ Range(lbls) = {}

\* The class universe the constructor stores.
InitClasses(given, cs, lbls) == IF given THEN cs ELSE lbls

\* Faulty variant: the ways assertion is off by one.
TaskGeneratorInit_off_by_one(lbls, given, cs, w) ==
  LET self_classes == InitClasses(given, cs, lbls)
  IN IF ~(Len(self_classes) + 1 >= w) THEN Raised(InsufficientClassesError)
     ELSE IF ~_check_classes(self_classes, lbls) THEN Raised(InvalidClassError)
     ELSE [kind |-> "TaskGenerator"]

\* __init__: the result and the error of the first failing assertion.
TaskGeneratorInit(lbls, given, cs, w) ==
  LET self_classes == InitClasses(given, cs, lbls)
  IN IF ~(Len(self_classes) >= w) THEN Raised(InsufficientClassesError)
     ELSE IF ~_check_classes(self_classes, lbls) THEN Raised(InvalidClassError)
     ELSE [kind |-> "TaskGenerator"]

NoFrame ==
  [resolved |-> FALSE, classes_to_sample |-> <<>>, encoded |-> FALSE,
   label_encoder |-> [ok |-> FALSE], data_indices |-> <<>>, data_labels |-> <<>>]

\* Faulty variant: every configured class is taken, ways being ignored.
DrawClasses_all(self_classes, self_ways) == {[ok |-> TRUE, value |-> self_classes]}

\* np.random.choice(self.classes, size=self.ways, replace=False)
DrawClasses(self_classes, self_ways) == random_choice(self_classes, self_ways)

\* Faulty variant: the draw is made with replacement.
DrawShots_with_replacement(d, c, shots) ==
  IF Len(d.val[c]) = 0
  THEN {[ok |-> FALSE, error |-> ChoiceValueError]}
  ELSE {[ok |-> TRUE, value |-> [i \in 1 .. shots |-> d.val[c][p[i]]]] :
          p \in [1 .. shots -> 1 .. Len(d.val[c])]}

\* Faulty variant: a class with too few positions gives all it has.
DrawShots_clamped(d, c, shots) ==
  random_choice(d.val[c], IF shots > Len(d.val[c]) THEN Len(d.val[c]) ELSE shots)

\* np.random.choice(self.dataset.labels_to_indices[_class], shots, replace=False),
\* d being the dictionary after the lookup of _class.
DrawShots(d, c, shots) == random_choice(d.val[c], shots)

\* The loop over classes_to_sample from its i-th class on: every outcome of
\* the remaining draws, each with the dictionary as the loop leaves it.
RECURSIVE SampleLoop(_, _, _, _, _, _, _)
SampleLoop(ds, cts, enc, shots, i, d, fr) ==
  IF i > Len(cts)
  THEN {[ret |-> [kind |-> "SampleDataset",
                  data |-> [j \in 1 .. Len(fr.data_indices) |-> DataAt(ds, fr.data_indices[j])],
                  label |-> fr.data_labels,
                  sampled_classes |-> cts],
         dict |-> d, frame |-> fr]}
  ELSE LET c == cts[i]
           d1 == Touch(d, c)
       IN UNION {IF ~pick.ok
                 THEN {[ret |-> Raised(pick.error), dict |-> d1, frame |-> fr]}
                 ELSE SampleLoop(ds, cts, enc, shots, i + 1, d1,
                        [fr EXCEPT !.data_indices = @ \o pick.value,
                                   !.data_labels = @ \o Full(shots, enc.class_to_idx[c])]) :
                 pick \in DrawShots(d1, c, shots)}

\* sample() once classes_to_sample is resolved.
SampleResolved(ds, d, cts, shots) ==
  LET enc == LabelEncoder(cts)
      fr0 == [NoFrame EXCEPT !.resolved = TRUE, !.classes_to_sample = cts]
  IN IF ~enc.ok
     THEN {[ret |-> Raised(enc.error), dict |-> d, frame |-> fr0]}
     ELSE SampleLoop(ds, cts, enc, shots, 1, d,
                     [fr0 EXCEPT !.encoded = TRUE, !.label_encoder = enc])

\* Every outcome of sample(classes, shots): the value returned or the
\* exception raised, the dictionary afterwards and the locals at that point.
SampleOutcomes(ds, d, lbls, self_classes, self_ways, given, cs, shots) ==
  IF given
  THEN SampleResolved(ds, d, cs, shots)
  ELSE IF ~_check_classes(self_classes, lbls)
       THEN {[ret |-> Raised(InvalidClassError), dict |-> d, frame |-> NoFrame]}
       ELSE UNION {IF ~drawn.ok
                   THEN {[ret |-> Raised(drawn.error), dict |-> d, frame |-> NoFrame]}
                   ELSE SampleResolved(ds, d, drawn.value, shots) :
                   drawn \in DrawClasses(self_classes, self_ways)}

(***************************************************************************)
(* State                                                                   *)
(***************************************************************************)
VARIABLES
  dataset,            \* the wrapped dataset
  labels_to_indices,  \* MetaDataset.labels_to_indices
  labels,             \* MetaDataset.labels
  constructed,        \* a TaskGenerator was constructed
  classes,            \* TaskGenerator.classes
  ways,               \* TaskGenerator.ways
  call,               \* the last operation and its arguments
  frame,              \* the locals of the last sample() when it ended
  ret                 \* what the last operation returned or raised

vars == <<dataset, labels_to_indices, labels, constructed, classes, ways, call, frame, ret>>

NoCall == [op |-> "none", given |-> FALSE, classes |-> <<>>, n |-> 0]

\* MetaDataset(dataset) has been constructed; no TaskGenerator yet.
Init ==
  /\ dataset \in Datasets
  /\ labels_to_indices = get_dict_of_labels_to_indices(dataset)
  /\ labels = KeysList(labels_to_indices)
  /\ constructed = FALSE
  /\ classes = <<>>
  /\ ways = 0
  /\ call = NoCall
  /\ frame = NoFrame
  /\ ret = [kind |-> "None"]

\* TaskGenerator(dataset, classes, ways)
Construct(given, cs, w) ==
  /\ call.op = "none"
  /\ ~constructed
  /\ LET r == TaskGeneratorInit(labels, given, cs, w)
     IN /\ ret' = r
        /\ constructed' = (r.kind = "TaskGenerator")
        /\ classes' = IF r.kind = "TaskGenerator" THEN InitClasses(given, cs, labels) ELSE classes
        /\ ways' = IF r.kind = "TaskGenerator" THEN w ELSE ways
  /\ call' = [op |-> "init", given |-> given, classes |-> cs, n |-> w]
  /\ frame' = NoFrame
  /\ UNCHANGED <<dataset, labels_to_indices, labels>>

\* generator.sample(classes, shots)
Sample(given, cs, shots) ==
  /\ call.op = "none"
  /\ constructed
  /\ \E o \in SampleOutcomes(dataset, labels_to_indices, labels, classes, ways, given, cs, shots) :
       /\ ret' = o.ret
       /\ labels_to_indices' = o.dict
       /\ frame' = o.frame
  /\ call' = [op |-> "sample", given |-> given, classes |-> cs, n |-> shots]
  /\ UNCHANGED <<dataset, labels, constructed, classes, ways>>

\* generator.classes = cs, assigned by the caller between two calls
SetClasses(cs) ==
  /\ call.op = "none"
  /\ constructed
  /\ classes' = cs
  /\ UNCHANGED <<dataset, labels_to_indices, labels, constructed, ways, call, frame, ret>>

\* The call is over: its locals are gone and the caller has taken the
\* returned value or the exception; the objects keep their state.
Return ==
  /\ call.op # "none"
  /\ call' = NoCall
  /\ frame' = NoFrame
  /\ ret' = [kind |-> "None"]
  /\ UNCHANGED <<dataset, labels_to_indices, labels, constructed, classes, ways>>

ConstructDefault == \E w \in 1 .. MaxWays : Construct(FALSE, <<>>, w)

ConstructWith == \E cs \in ClassLists, w \in 1 .. MaxWays : Construct(TRUE, cs, w)

SampleDefault == \E shots \in 1 .. MaxShots : Sample(FALSE, <<>>, shots)

SampleOverride == \E cs \in ClassLists, shots \in 1 .. MaxShots : Sample(TRUE, cs, shots)

AssignClasses == \E cs \in ClassLists : SetClasses(cs)

\* The code itself: nothing in it assigns classes after construction.
Next ==
  \/ ConstructDefault
  \/ ConstructWith
  \/ SampleDefault
  \/ SampleOverride
  \/ Return

Spec == Init /\ [][Next]_vars

\* The code with a caller that also reassigns generator.classes.
NextAssigned ==
  \/ ConstructDefault
  \/ ConstructWith
  \/ SampleDefault
  \/ SampleOverride
  \/ AssignClasses
  \/ Return

SpecAssigned == Init /\ [][NextAssigned]_vars

(***************************************************************************)
(* Properties                                                              *)
(***************************************************************************)
\* The last operation was sample() and it returned an Episode.
IsEpisode == call.op = "sample" /\ ret.kind = "SampleDataset"

\* The positions of the wrapped dataset whose label is c.
PositionsOf(c) == {p \in 0 .. Len(dataset) - 1 : dataset[p + 1][2] = c}

\* C1: an Episode returned by sample(shots=k) has data and label sequences
\* of length (number of resolved classes) * k, the number of resolved classes
\* being ways without an override and len(override) with one.
C1_EpisodeLength ==
  IsEpisode =>
    LET n == Len(ret.sampled_classes)
        k == call.n
    IN /\ Len(ret.data) = n * k
       /\ Len(ret.label) = n * k
       /\ ~call.given => n = ways
       /\ call.given => n = Len(call.classes)

C1_Witness ==
  /\ IsEpisode
  /\ ~call.given
  /\ ways = 2
  /\ call.n = 1
  /\ Len(ret.data) = 2

\* C2: the remapped labels of an Episode over n classes with k shots are
\* 0 (k times), 1 (k times), ..., n-1 (k times): the label at flat position
\* j is floor(j / k), and the i-th class in draw order has dense index i.
C2_LabelsAreBlocks ==
  IsEpisode =>
    LET n == Len(ret.sampled_classes)
        k == call.n
    IN /\ Len(ret.label) = n * k
       /\ \A j \in 0 .. Len(ret.label) - 1 : ret.label[j + 1] = j \div k
       /\ \A i \in 0 .. n - 1 :
            frame.label_encoder.class_to_idx[ret.sampled_classes[i + 1]] = i

\* Two classes of two shots each: the blocks are 0, 0 and 1, 1.
C2_Witness ==
  /\ IsEpisode
  /\ call.n = 2
  /\ ret.sampled_classes = <<1, 0>>
  /\ ret.label = <<0, 0, 1, 1>>

\* C3: every data item of an Episode is the data of a dataset position whose
\* original label is the sampled class its remapped label stands for, and
\* the positions drawn for one class are pairwise distinct.
C3_ItemsComeFromTheirClass ==
  IsEpisode =>
    LET k == call.n
        idx == frame.data_indices
    IN /\ Len(idx) = Len(ret.data)
       /\ \A j \in 1 .. Len(ret.data) :
            /\ idx[j] \in PositionsOf(ret.sampled_classes[ret.label[j] + 1])
            /\ ret.data[j] = dataset[idx[j] + 1][1]
       /\ \A j1, j2 \in 1 .. Len(idx) :
            (j1 # j2 /\ ret.label[j1] = ret.label[j2]) => idx[j1] # idx[j2]

C3_Witness ==
  /\ IsEpisode
  /\ call.n = 2
  /\ Len(ret.sampled_classes) = 1
  /\ frame.data_indices = <<2, 0>>

\* C4: a class list in effect that names a label the dataset does not have
\* makes the operation fail with InvalidClassError: at construction (the
\* ways assertion, which comes first, having passed), and in sample() before
\* any position is drawn, for the configured classes without an override and
\* for the override list.
C4_InvalidClassRejected ==
  /\ (/\ call.op = "init"
      /\ Len(IF call.given THEN call.classes ELSE labels) >= call.n
      /\ ~(Range(IF call.given THEN call.classes ELSE labels) \subseteq Range(labels)))
       => ret = Raised(InvalidClassError)
  /\ (/\ call.op = "sample"
      /\ ~(Range(IF call.given THEN call.classes ELSE classes) \subseteq Range(labels)))
       => (ret = Raised(InvalidClassError) /\ frame.data_indices = <<>>)

\* C5: a sample() call, returning or raising, with or without an override,
\* leaves the sampler's classes and ways and the dataset's labels and
\* labels_to_indices (key set and index lists) as they were.
C5_SampleChangesNothing ==
  [][(call.op = "none" /\ call'.op = "sample") =>
       UNCHANGED <<classes, ways, labels, labels_to_indices, dataset>>]_vars

\* C6 as stated: when some class of the resolved class list has fewer
\* positions than shots, sample() raises the ValueError of the draw and
\* returns no Episode.
C6_TooFewPositionsRaises ==
  (/\ call.op = "sample"
   /\ frame.resolved
   /\ \E c \in Range(frame.classes_to_sample) : Cardinality(PositionsOf(c)) < call.n)
    => ret = Raised(ChoiceValueError)

\* C6, amended: when the resolved class list has no repeated class and some
\* class of it has fewer positions than shots, sample() raises the ValueError
\* of the draw and returns no Episode, wherever that class stands in the list.
C6_TooFewPositionsRaisesUnlessDuplicate ==
  (/\ call.op = "sample"
   /\ frame.resolved
   /\ NoDuplicates(frame.classes_to_sample)
   /\ \E c \in Range(frame.classes_to_sample) : Cardinality(PositionsOf(c)) < call.n)
    => ret = Raised(ChoiceValueError)

\* The second class is the short one; the first was drawn in full.
C6_Witness ==
  /\ call.op = "sample"
  /\ call.n = 2
  /\ Len(frame.classes_to_sample) = 2
  /\ Cardinality(PositionsOf(frame.classes_to_sample[1])) = 2
  /\ Cardinality(PositionsOf(frame.classes_to_sample[2])) = 1
  /\ Len(frame.data_indices) = 2
  /\ ret = Raised(ChoiceValueError)

\* C7: without an override the sampled classes of an Episode are ways
\* pairwise distinct members of the configured classes, hence dataset
\* labels; with an override they are the override list, in its order.
C7_SampledClasses ==
  IsEpisode =>
    /\ ~call.given =>
         /\ Len(ret.sampled_classes) = ways
         /\ NoDuplicates(ret.sampled_classes)
         /\ Range(ret.sampled_classes) \subseteq Range(classes)
         /\ Range(ret.sampled_classes) \subseteq Range(labels)
    /\ call.given => ret.sampled_classes = call.classes

C7_Witness ==
  /\ IsEpisode
  /\ ~call.given
  /\ ways = 1
  /\ classes = <<0, 1>>
  /\ ret.sampled_classes = <<1>>

\* The first position of the wrapped dataset that carries label c.
FirstPosition(c) == CHOOSE p \in PositionsOf(c) : \A q \in PositionsOf(c) : p <= q

\* C8: labels_to_indices partitions the positions 0..n-1: every position is
\* in exactly one index list, once, the list of its own label (a list holds
\* exactly the positions of its key, and being strictly increasing holds
\* none twice); every list is in increasing order; labels holds each
\* distinct label once, in first-seen order. Right after construction the
\* keys are the labels, none with an empty list.
C8_IndexIsPartition ==
  LET d == labels_to_indices
      seen == {dataset[i][2] : i \in 1 .. Len(dataset)}
  IN /\ \A k \in Range(d.keys) :
          /\ Range(d.val[k]) = PositionsOf(k)
          /\ \A i \in 1 .. Len(d.val[k]) - 1 : d.val[k][i] < d.val[k][i + 1]
     /\ NoDuplicates(d.keys)
     /\ seen \subseteq Range(d.keys)
     /\ NoDuplicates(labels)
     /\ Range(labels) = seen
     /\ \A i \in 1 .. Len(labels) - 1 :
          FirstPosition(labels[i]) < FirstPosition(labels[i + 1])
     /\ ~constructed => (d.keys = labels /\ \A k \in Range(d.keys) : d.val[k] # <<>>)

C8_Witness ==
  /\ Len(dataset) = 3
  /\ labels = <<1, 0>>
  /\ labels_to_indices.val[1] = <<0, 2>>
  /\ labels_to_indices.val[0] = <<1>>

\* C9: a class list with a repeated label makes LabelEncoder raise
\* DuplicateLabelError and build no mapping, so sample() with such an
\* override returns no Episode; for a duplicate-free list class_to_idx and
\* idx_to_class are inverse bijections and class_to_idx of the label at
\* position p is p.
C9_LabelEncoder ==
  (call.op = "sample" /\ frame.resolved) =>
    LET cts == frame.classes_to_sample
        enc == frame.label_encoder
    IN /\ call.given => cts = call.classes
       /\ ~NoDuplicates(cts) =>
            /\ ret = Raised(DuplicateLabelError)
            /\ ~frame.encoded
            /\ frame.data_indices = <<>>
       /\ NoDuplicates(cts) =>
            /\ frame.encoded
            /\ DOMAIN enc.class_to_idx = Range(cts)
            /\ DOMAIN enc.idx_to_class = 0 .. Len(cts) - 1
            /\ \A p \in 0 .. Len(cts) - 1 :
                 /\ enc.class_to_idx[cts[p + 1]] = p
                 /\ enc.idx_to_class[p] = cts[p + 1]
            /\ \A c \in Range(cts) : enc.idx_to_class[enc.class_to_idx[c]] = c

C9_Witness ==
  /\ call.op = "sample"
  /\ call.given
  /\ call.classes = <<0, 0>>
  /\ 0 \in Range(labels)
  /\ call.n = 1
  /\ ret = Raised(DuplicateLabelError)

\* C10: construction with ways greater than the number of classes of the
\* class universe (the classes argument, or the dataset's labels without
\* one) raises InsufficientClassesError; a constructed sampler has
\* len(classes) >= ways.
C10_WaysWithinClasses ==
  call.op = "init" =>
    /\ call.n > Len(IF call.given THEN call.classes ELSE labels)
         => (ret = Raised(InsufficientClassesError) /\ ~constructed)
    /\ ret.kind = "TaskGenerator" =>
         /\ constructed
         /\ ways = call.n
         /\ classes = (IF call.given THEN call.classes ELSE labels)
         /\ Len(classes) >= ways

C10_Witness ==
  /\ call.op = "init"
  /\ ~call.given
  /\ Len(labels) = 1
  /\ call.n = 2
  /\ ret = Raised(InsufficientClassesError)

====
